---- MODULE Spec2Model ----
(***************************************************************************)
(* One-way synchronization of a folder on the PC with a folder of the      *)
(* Yandex disk: src/main.py (synchronization, exception_decorator, main)   *)
(* and src/yandex_cloud.py (YandexCloud).                                  *)
(*                                                                         *)
(* A folder is a dictionary from file names to modification times.  The    *)
(* remote side answers every request with a status the program reads (or   *)
(* ignores); the statuses are inputs of the actions.                       *)
(***************************************************************************)
EXTENDS Integers, FiniteSets, Sequences, TLC

\* ---------------------------------------------------------------- bounds
\* The number of different file names.
MaxFiles == 2
\* Modification times are 0..MaxTime; 0 is the epoch (the float 0.0).
MaxTime == 2
\* The listing request's limit=10000 (src/yandex_cloud.py:90), scaled to the
\* folder sizes of the model: a listing holds at most ListLimit entries.
ListLimit == 1

Names == 1..MaxFiles
Times == 0..MaxTime
\* Python's None.
None == -1

\* The dictionaries from a subset of Names to Times.
Dicts == UNION {[S -> Times] : S \in SUBSET Names}
EmptyDict == [n \in {} |-> 0]

\* CONFIG.get (main.py lines 117-120) of a key the .env file does not hold.
NoValue == <<"None">>
\* PATH_TO_FOLDER_ON_PC: no value, the path of no folder, the path of a folder.
Paths == {NoValue, <<"/missing">>, <<"/folder">>}
\* SYNCHRONIZATION_PERIOD, character by character: no value, "", "a", "-1",
\* "0", "60".
Periods == {NoValue, <<>>, <<"a">>, <<"-", "1">>, <<"0">>, <<"6", "0">>}

VARIABLES
    local,          \* the folder on the PC: name -> os.path.getmtime
    cloud,          \* the folder in the cloud: name -> modified
    pc,             \* where main is
    files_cloud,    \* synchronization's dictionary (line 54), popped at line 59
    todo,           \* what the running for loop has still to visit
    download_files, \* line 51
    deleted_files,  \* line 52
    rewrite_files,  \* line 53
    outcome,        \* how the last synchronization call ended
    \* history of the running (or last) cycle, read by the properties only
    snapshot,       \* what get_info returned
    listed,         \* what os.listdir returned
    seen,           \* name -> the modification time read at line 58
    calls,          \* <<method, name>> -> how often the YandexCloud method was called
    quiet,          \* TRUE when the last cycle ended without an exception and the
                    \* PC folder was not changed since
    trashed,        \* the names the cycle's deletes moved to the disk's trash
    response,       \* the answer to the request of the last step, if it made one
    message,        \* the message of the exception that was raised
    \* the process and its configuration
    path_on_pc,     \* main.py line 119
    sleep_period,   \* main.py line 118
    folder_exists,  \* the disk holds the folder NAME_FOLDER_CLOUD names
    exit_status     \* the status the process ended with, None while it runs

vars == <<local, cloud, pc, files_cloud, todo, download_files, deleted_files,
          rewrite_files, outcome, snapshot, listed, seen, calls, quiet,
          trashed, response, message, path_on_pc, sleep_period, folder_exists,
          exit_status>>

\* ------------------------------------------------------------ main.py
\* exception_decorator, lines 24-33: the exceptions the wrapper catches.
CaughtNoCloud(exc) == exc \in {"ConnectionError", "TokenException"}
CaughtNoToken(exc) == exc \in {"ConnectionError", "CloudException"}
Caught(exc) == exc \in {"ConnectionError", "TokenException", "CloudException"}

\* dict.pop(key), line 59: the dictionary without the key.
PopKeeps(d, k) == d
Pop(d, k) == [n \in DOMAIN d \ {k} |-> d[n]]

\* line 59: files_cloud.pop(file) if file in files_cloud else None
FileCloud(d, file) == IF file \in DOMAIN d THEN d[file] ELSE None

\* line 62, `not file_cloud`: None and the float 0.0 are both false in Python.
Not(file_cloud) == file_cloud = None \/ file_cloud = 0

\* line 68, `file_cloud and modified > file_cloud`
Newer(modified, file_cloud) == ~Not(file_cloud) /\ modified > file_cloud

\* ------------------------------------------------------ yandex_cloud.py
Min(a, b) == IF a < b THEN a ELSE b

\* get_info, lines 90-97: the items of a 200 answer to
\* ...&fields=items&limit=10000, as a dictionary.  The answer describes at most
\* `limit` of the folder's resources; which ones is the server's choice.
Listings(folder) ==
    {[n \in S |-> folder[n]] :
        S \in {T \in SUBSET DOMAIN folder :
                 Cardinality(T) = Min(ListLimit, Cardinality(DOMAIN folder))}}

\* __save, lines 44-45: the times the disk may give a file that is stored now.
\* The disk stamps a stored file with its own clock, which is past the epoch and
\* not behind the modification time the PC recorded for the file.
StoredTimes(modified) == {t \in Times : t >= modified /\ t >= 1}

Put(folder, name, t) == [n \in DOMAIN folder \cup {name} |->
                            IF n = name THEN t ELSE folder[n]]

\* delete, lines 76-78 with status 204: the folder without the file.
Remove(folder, name) == [n \in DOMAIN folder \ {name} |-> folder[n]]

\* delete, line 76: the request's permanently=False.  The disk moves the resource
\* to its trash, from where it can be restored; with True it would be destroyed.
permanentlyTrue == TRUE
permanently == FALSE
Trash(trash, name) == IF permanently THEN trash ELSE trash \cup {name}

\* The requests of YandexCloud and their answers.  An answer has a status and,
\* when it reports an error, a message: response.json().get("message").
Refusals == {401, 500}
Text(status) ==
    CASE status = 401 -> "Unauthorized"
      [] status = 404 -> "Resource not found"
      [] status = 500 -> "Internal server error"
      [] status = 507 -> "Insufficient storage"
      [] OTHER -> "None"
Answer(request, name, status) ==
    [request |-> request, name |-> name, status |-> status, text |-> Text(status)]
\* requests raised ConnectionError: there is no answer.
NoAnswer(request, name) == Answer(request, name, 0)
NoResponse == Answer("none", 0, 0)

\* lines 47 and 79: f"<File>: {file_name}, <Error>: {message}".
FileMessageNoText(file_name, text) == <<"File: ", file_name>>
FileMessage(file_name, text) == <<"File: ", file_name, ", Error: ", text>>
\* line 113: f"<Error>: {message}".
ErrorMessage(text) == <<"Error: ", text>>
\* line 102: the answer's message as it is; line 100: no message.
NoMessage == <<>>

\* -------------------------------------------------------------- state
\* The calls of YandexCloud's methods: get_info() and load, reload, delete of a name.
Calls == {<<"get_info", 0>>} \cup ({"load", "reload", "delete"} \X Names)
NoCalls == [c \in Calls |-> 0]
Called(log, c) == [log EXCEPT ![c] = @ + 1]

\* Nothing has run yet.
Fresh ==
    /\ files_cloud = EmptyDict /\ todo = {}
    /\ download_files = 0 /\ deleted_files = 0 /\ rewrite_files = 0
    /\ outcome = "none"
    /\ snapshot = EmptyDict /\ listed = {} /\ seen = EmptyDict
    /\ calls = NoCalls
    /\ quiet = FALSE
    /\ trashed = {}
    /\ response = NoResponse
    /\ message = NoMessage
    /\ exit_status = None

\* main is at its loop (line 132), the configuration checked and the check of
\* the cloud folder done; both folders hold whatever they hold.
Init ==
    /\ local \in Dicts /\ cloud \in Dicts
    /\ pc = "main_loop"
    /\ path_on_pc = <<"/folder">> /\ sleep_period = <<"6", "0">>
    /\ folder_exists = TRUE
    /\ Fresh

counters == <<download_files, deleted_files, rewrite_files>>
folders == <<local, cloud>>
history == <<snapshot, listed, seen>>
config == <<path_on_pc, sleep_period, folder_exists>>

\* The exception is raised inside the loops and swallowed there.
RaiseGoesOn(exc, text) ==
    /\ outcome' = exc
    /\ message' = text
    /\ UNCHANGED <<pc, files_cloud, todo, exit_status>>
    /\ quiet' = FALSE

\* An exception leaves synchronization (its locals are gone) and reaches the
\* wrapper, lines 24-33; caught, main goes on to line 135, else the process ends
\* with a traceback.
Raise(exc, text) ==
    /\ outcome' = exc
    /\ message' = text
    /\ pc' = IF Caught(exc) THEN "sleep" ELSE "terminated"
    /\ exit_status' = IF Caught(exc) THEN exit_status ELSE 1
    /\ files_cloud' = EmptyDict /\ todo' = {}
    /\ quiet' = FALSE

\* ------------------------------------------------------------ startup
\* str.isdigit, line 105: not empty and every character a digit.
Digits == {"0", "1", "2", "3", "4", "5", "6", "7", "8", "9"}
IsDigit(period) == Len(period) > 0 /\ \A i \in 1..Len(period) : period[i] \in Digits

\* os.path.exists, line 92.
Exists(path) == path = <<"/folder">>

\* sys.exit(0), lines 95 and 109: SystemExit passes line 141 and ends the process.
SysExit(status) ==
    /\ pc' = "terminated"
    /\ exit_status' = status
    /\ UNCHANGED <<outcome, message>>

\* An exception in main outside synchronization: nothing catches it (line 141
\* catches KeyboardInterrupt only) and the process ends with a traceback.
Uncaught(exc, text) ==
    /\ pc' = "terminated"
    /\ exit_status' = 1
    /\ outcome' = exc
    /\ message' = text

\* main, line 126: check_path_exists, lines 92-95.  os.path.exists(None) raises
\* TypeError.
CheckPathExists ==
    /\ pc = "main"
    /\ IF path_on_pc = NoValue THEN Uncaught("TypeError", NoMessage)
       ELSE IF ~Exists(path_on_pc) THEN SysExit(0)
       ELSE /\ pc' = "check_sleep_period"
            /\ UNCHANGED <<outcome, message, exit_status>>
    /\ UNCHANGED <<folders, files_cloud, todo, counters, history, calls, quiet,
                   trashed, response, config>>

\* main, line 127: check_sleep_period, lines 105-109.  None has no isdigit.
CheckSleepPeriod ==
    /\ pc = "check_sleep_period"
    /\ IF sleep_period = NoValue THEN Uncaught("AttributeError", NoMessage)
       ELSE IF ~IsDigit(sleep_period) THEN SysExit(0)
       ELSE /\ pc' = "check_exists_folder_cloud"
            /\ UNCHANGED <<outcome, message, exit_status>>
    /\ UNCHANGED <<folders, files_cloud, todo, counters, history, calls, quiet,
                   trashed, response, config>>

\* The statuses the disk answers the request of line 122 with.
FolderStatuses == (IF folder_exists THEN {200} ELSE {404}) \cup Refusals

\* main, line 130: check_exists_folder_cloud, lines 121-124.  Status 404 leads to
\* __create_folder_cloud; with every other status the method returns.
CheckExistsFolderCloud ==
    /\ pc = "check_exists_folder_cloud"
    /\ \E status \in FolderStatuses :
          /\ response' = Answer("check_exists_folder_cloud", 0, status)
          /\ pc' = IF status = 404 THEN "create_folder_cloud" ELSE "main_loop"
    /\ UNCHANGED <<folders, files_cloud, todo, counters, outcome, history, calls,
                   quiet, trashed, message, config, exit_status>>

\* line 122 with no connection.
CheckFolderNoConnection ==
    /\ pc = "check_exists_folder_cloud"
    /\ response' = NoAnswer("check_exists_folder_cloud", 0)
    /\ Uncaught("ConnectionError", NoMessage)
    /\ UNCHANGED <<folders, files_cloud, todo, counters, history, calls, quiet,
                   trashed, config>>

\* __create_folder_cloud, lines 110-112, with status 201: the disk holds the
\* folder, empty.
CreateFolderCloud ==
    /\ pc = "create_folder_cloud"
    /\ response' = Answer("__create_folder_cloud", 0, 201)
    /\ folder_exists' = TRUE
    /\ cloud' = EmptyDict
    /\ pc' = "main_loop"
    /\ UNCHANGED <<local, files_cloud, todo, counters, outcome, history, calls,
                   quiet, trashed, message, path_on_pc, sleep_period, exit_status>>

\* __create_folder_cloud with another status: lines 112-114.
CreateFolderRefused ==
    /\ pc = "create_folder_cloud"
    /\ \E status \in Refusals :
          /\ response' = Answer("__create_folder_cloud", 0, status)
          /\ Uncaught("CloudException", ErrorMessage(Text(status)))
    /\ UNCHANGED <<folders, files_cloud, todo, counters, history, calls, quiet,
                   trashed, config>>

\* line 111 with no connection.
CreateFolderNoConnection ==
    /\ pc = "create_folder_cloud"
    /\ response' = NoAnswer("__create_folder_cloud", 0)
    /\ Uncaught("ConnectionError", NoMessage)
    /\ UNCHANGED <<folders, files_cloud, todo, counters, history, calls, quiet,
                   trashed, config>>

\* ------------------------------------------------------------ the cycle
\* main, lines 133-134, and synchronization, lines 51-53.
StartCycle ==
    /\ pc = "main_loop"
    /\ pc' = "get_info"
    /\ download_files' = 0 /\ deleted_files' = 0 /\ rewrite_files' = 0
    /\ response' = NoResponse
    /\ UNCHANGED <<folders, files_cloud, todo, outcome, history, calls, quiet,
                   trashed, message, config, exit_status>>

\* line 54 with get_info's status 200 (lines 93-97), then os.listdir of line 57.
GetInfoOk ==
    /\ pc = "get_info"
    /\ folder_exists
    /\ \E d \in Listings(cloud) : files_cloud' = d /\ snapshot' = d
    /\ todo' = DOMAIN local /\ listed' = DOMAIN local
    /\ calls' = Called(calls, <<"get_info", 0>>)
    /\ response' = Answer("get_info", 0, 200)
    /\ pc' = "for_local"
    /\ UNCHANGED <<folders, counters, outcome, seen, quiet, trashed, message,
                   config, exit_status>>

\* line 54 with get_info's status 401 (lines 99-100).
GetInfoUnauthorized ==
    /\ pc = "get_info"
    /\ calls' = Called(calls, <<"get_info", 0>>)
    /\ response' = Answer("get_info", 0, 401)
    /\ Raise("TokenException", NoMessage)
    /\ UNCHANGED <<folders, counters, history, trashed, config>>

\* The statuses other than 200 and 401 the disk answers the request of line 91
\* with.
ListingRefusals == (Refusals \ {401}) \cup (IF folder_exists THEN {} ELSE {404})

\* line 54 with any other status (lines 101-102).
GetInfoFails ==
    /\ pc = "get_info"
    /\ calls' = Called(calls, <<"get_info", 0>>)
    /\ \E status \in ListingRefusals :
          /\ response' = Answer("get_info", 0, status)
          /\ Raise("CloudException", <<Text(status)>>)
    /\ UNCHANGED <<folders, counters, history, trashed, config>>

\* line 54 with no connection: requests.get (line 91) raises ConnectionError.
GetInfoNoConnection ==
    /\ pc = "get_info"
    /\ calls' = Called(calls, <<"get_info", 0>>)
    /\ response' = NoAnswer("get_info", 0)
    /\ Raise("ConnectionError", NoMessage)
    /\ UNCHANGED <<folders, counters, history, trashed, config>>

\* lines 62 and 68: the method synchronization calls for a file.
Method(modified, file_cloud) ==
    IF Not(file_cloud) THEN "load"
    ELSE IF Newer(modified, file_cloud) THEN "reload"
    ELSE "none"

\* lines 57-59 for one file of the listing.
Visit(file) ==
    /\ pc = "for_local" /\ file \in todo
    /\ seen' = Put(seen, file, local[file])
    /\ files_cloud' = IF file \in DOMAIN files_cloud THEN Pop(files_cloud, file)
                      ELSE files_cloud

\* lines 65 and 71.
Count(method) ==
    /\ download_files' = IF method = "load" THEN download_files + 1 ELSE download_files
    /\ rewrite_files' = IF method = "reload" THEN rewrite_files + 1 ELSE rewrite_files
    /\ UNCHANGED deleted_files

\* lines 58-71 for a file that is in the cloud and not older there: nothing is sent.
Keep(file) ==
    /\ Visit(file) /\ todo' = todo \ {file}
    /\ Method(local[file], FileCloud(files_cloud, file)) = "none"
    /\ response' = NoResponse
    /\ UNCHANGED <<folders, pc, counters, outcome, snapshot, listed, calls, quiet,
                   trashed, message, config, exit_status>>

\* The same with a put (yandex_cloud.py line 45) that opens the file for writing.
SaveStoredTouches(file) ==
    LET method == Method(local[file], FileCloud(files_cloud, file)) IN
    /\ Visit(file) /\ todo' = todo \ {file}
    /\ method # "none"
    /\ \E t \in StoredTimes(local[file]) :
          cloud' = Put(cloud, file, t) /\ local' = Put(local, file, t)
    /\ calls' = Called(calls, <<method, file>>)
    /\ response' = Answer("__save.put", file, 201)
    /\ Count(method)
    /\ UNCHANGED <<pc, outcome, snapshot, listed, quiet, trashed, message,
                   config, exit_status>>

\* lines 58-71 with load or reload: __save's get answers 200 and the put
\* (line 45) stores the file.
SaveStored(file) ==
    LET method == Method(local[file], FileCloud(files_cloud, file)) IN
    /\ Visit(file) /\ todo' = todo \ {file}
    /\ method # "none"
    /\ \E t \in StoredTimes(local[file]) : cloud' = Put(cloud, file, t)
    /\ calls' = Called(calls, <<method, file>>)
    /\ response' = Answer("__save.put", file, 201)
    /\ Count(method)
    /\ UNCHANGED <<local, pc, outcome, snapshot, listed, quiet, trashed, message,
                   config, exit_status>>

\* The same, but the put of line 45 is answered with a failure status: the answer
\* is not looked at, no exception is raised, and the file is counted as saved.
SaveNotStored(file) ==
    LET method == Method(local[file], FileCloud(files_cloud, file)) IN
    /\ Visit(file) /\ todo' = todo \ {file}
    /\ method # "none"
    /\ calls' = Called(calls, <<method, file>>)
    /\ response' = Answer("__save.put", file, 507)
    /\ Count(method)
    /\ UNCHANGED <<folders, pc, outcome, snapshot, listed, quiet, trashed, message,
                   config, exit_status>>

\* __save's get answers another status than 200: lines 46-48.  The put of line
\* 45 is not reached.
SaveRefused(file) ==
    LET method == Method(local[file], FileCloud(files_cloud, file)) IN
    /\ pc = "for_local" /\ file \in todo
    /\ method # "none"
    /\ seen' = Put(seen, file, local[file])
    /\ calls' = Called(calls, <<method, file>>)
    /\ \E status \in Refusals :
          /\ response' = Answer("__save.get", file, status)
          /\ Raise("CloudException", FileMessage(file, Text(status)))
    /\ UNCHANGED <<folders, counters, snapshot, listed, trashed, config>>

\* No connection at line 41 or 45: requests raises ConnectionError.
SaveNoConnection(file) ==
    LET method == Method(local[file], FileCloud(files_cloud, file)) IN
    /\ pc = "for_local" /\ file \in todo
    /\ method # "none"
    /\ seen' = Put(seen, file, local[file])
    /\ calls' = Called(calls, <<method, file>>)
    /\ \E request \in {"__save.get", "__save.put"} :
          response' = NoAnswer(request, file)
    /\ Raise("ConnectionError", NoMessage)
    /\ UNCHANGED <<folders, counters, snapshot, listed, trashed, config>>

\* lines 74-75: the listing is exhausted; the loop over what is left of files_cloud.
ForLocalDone ==
    /\ pc = "for_local" /\ todo = {}
    /\ pc' = "for_cloud"
    /\ todo' = DOMAIN files_cloud
    /\ response' = NoResponse
    /\ UNCHANGED <<folders, files_cloud, counters, outcome, history, calls, quiet,
                   trashed, message, config, exit_status>>

\* The same delete, called while the loop over the PC folder still runs.
DeleteOkEarly(filename) ==
    /\ \/ pc = "for_cloud" /\ filename \in todo
       \/ pc = "for_local" /\ filename \in DOMAIN files_cloud \ DOMAIN local
    /\ cloud' = Remove(cloud, filename)
    /\ trashed' = Trash(trashed, filename)
    /\ calls' = Called(calls, <<"delete", filename>>)
    /\ response' = Answer("delete", filename, 204)
    /\ deleted_files' = deleted_files + 1
    /\ todo' = IF pc = "for_cloud" THEN todo \ {filename} ELSE todo
    /\ UNCHANGED <<local, pc, files_cloud, download_files, rewrite_files, outcome,
                   history, quiet, message, config, exit_status>>

\* lines 76-78 with delete's status 204.
DeleteOk(filename) ==
    /\ pc = "for_cloud" /\ filename \in todo
    /\ cloud' = Remove(cloud, filename)
    /\ trashed' = Trash(trashed, filename)
    /\ calls' = Called(calls, <<"delete", filename>>)
    /\ response' = Answer("delete", filename, 204)
    /\ deleted_files' = deleted_files + 1
    /\ todo' = todo \ {filename}
    /\ UNCHANGED <<local, pc, files_cloud, download_files, rewrite_files, outcome,
                   history, quiet, message, config, exit_status>>

\* line 76 with another status than 204: yandex_cloud.py lines 78-80.
DeleteRefused(filename) ==
    /\ pc = "for_cloud" /\ filename \in todo
    /\ calls' = Called(calls, <<"delete", filename>>)
    /\ \E status \in Refusals :
          /\ response' = Answer("delete", filename, status)
          /\ Raise("CloudException", FileMessage(filename, Text(status)))
    /\ UNCHANGED <<folders, counters, history, trashed, config>>

\* line 76 with no connection.
DeleteNoConnection(filename) ==
    /\ pc = "for_cloud" /\ filename \in todo
    /\ calls' = Called(calls, <<"delete", filename>>)
    /\ response' = NoAnswer("delete", filename)
    /\ Raise("ConnectionError", NoMessage)
    /\ UNCHANGED <<folders, counters, history, trashed, config>>

\* lines 80-82: synchronization returns; main is at line 135.
Finish ==
    /\ pc = "for_cloud" /\ todo = {}
    /\ outcome' = "ok"
    /\ pc' = "sleep"
    /\ files_cloud' = EmptyDict
    /\ quiet' = TRUE
    /\ response' = NoResponse
    /\ UNCHANGED <<folders, todo, counters, history, calls, trashed, message,
                   config, exit_status>>

\* line 135: time.sleep returns and main is back at line 132; what the call of
\* synchronization left (its counters, its log) is gone.
Sleep ==
    /\ pc = "sleep"
    /\ pc' = "main_loop"
    /\ download_files' = 0 /\ deleted_files' = 0 /\ rewrite_files' = 0
    /\ snapshot' = EmptyDict /\ listed' = {} /\ seen' = EmptyDict /\ calls' = NoCalls
    /\ outcome' = "none"
    /\ trashed' = {} /\ response' = NoResponse /\ message' = NoMessage
    /\ UNCHANGED <<folders, files_cloud, todo, quiet, config, exit_status>>

\* ------------------------------------------------------- environment
\* Between two cycles somebody writes a file of the PC folder, or removes one.
LocalWrite(file, t) ==
    /\ pc = "main_loop"
    /\ local' = Put(local, file, t)
    /\ local' # local
    /\ quiet' = FALSE
    /\ UNCHANGED <<cloud, pc, files_cloud, todo, counters, outcome, history, calls,
                   trashed, response, message, config, exit_status>>

LocalRemove(file) ==
    /\ pc = "main_loop"
    /\ file \in DOMAIN local
    /\ local' = Remove(local, file)
    /\ quiet' = FALSE
    /\ UNCHANGED <<cloud, pc, files_cloud, todo, counters, outcome, history, calls,
                   trashed, response, message, config, exit_status>>

\* The steps of the process in which every request is answered with success.
Succeeds ==
    \/ StartCycle
    \/ GetInfoOk
    \/ \E file \in Names : Keep(file)
    \/ \E file \in Names : SaveStored(file)
    \/ ForLocalDone
    \/ \E filename \in Names : DeleteOk(filename)
    \/ Finish
    \/ Sleep

\* The steps in which a request fails.
Fails ==
    \/ GetInfoUnauthorized
    \/ GetInfoFails
    \/ GetInfoNoConnection
    \/ \E file \in Names : SaveNotStored(file)
    \/ \E file \in Names : SaveRefused(file)
    \/ \E file \in Names : SaveNoConnection(file)
    \/ \E filename \in Names : DeleteRefused(filename)
    \/ \E filename \in Names : DeleteNoConnection(filename)

Changes ==
    \/ \E file \in Names, t \in Times : LocalWrite(file, t)
    \/ \E file \in Names : LocalRemove(file)

Next == Succeeds \/ Fails \/ Changes

Spec == Init /\ [][Next]_vars

\* The process is not stopped: whenever it can take a step, it takes one.
FairSpec == Spec /\ WF_vars(Succeeds \/ Fails)

\* From some point on every request succeeds and the PC folder is left alone:
\* the behaviours from that point, whatever the folders hold then.
HealedSpec == Init /\ [][Succeeds]_vars /\ WF_vars(Succeeds)

\* The process from its start: main is at line 117, the configuration is
\* whatever the .env file holds, the PC folder is there or not, the disk holds
\* the folder or not.
StartInit ==
    /\ pc = "main"
    /\ path_on_pc \in Paths /\ sleep_period \in Periods
    /\ folder_exists \in BOOLEAN
    /\ local \in (IF Exists(path_on_pc) THEN Dicts ELSE {EmptyDict})
    /\ cloud \in (IF folder_exists THEN Dicts ELSE {EmptyDict})
    /\ Fresh

\* main, lines 126-130.
Startup ==
    \/ CheckPathExists
    \/ CheckSleepPeriod
    \/ CheckExistsFolderCloud
    \/ CheckFolderNoConnection
    \/ CreateFolderCloud
    \/ CreateFolderRefused
    \/ CreateFolderNoConnection

StartNext == Startup \/ Next

StartSpec == StartInit /\ [][StartNext]_vars

\* ---------------------------------------------------------- properties
\* A cycle has run to its end (line 82) without an exception; main is at line 135.
Completed == pc = "sleep" /\ outcome = "ok"

Uploads(log, n) == log[<<"load", n>>] + log[<<"reload", n>>]
Deletes(log, n) == log[<<"delete", n>>]

\* C1. Completeness: when a cycle has run to its end without an exception, every
\* name of the PC listing is in the cloud folder, with a modification time there
\* that is not less than the one read at line 58.
C1_Completeness ==
    Completed =>
        \A n \in listed : n \in DOMAIN cloud /\ cloud[n] >= seen[n]

\* C2. When a cycle has run to its end without an exception, the cloud folder
\* holds no name that the PC folder does not hold.
C2_NoRemoteOnly ==
    Completed => DOMAIN cloud \subseteq DOMAIN local

\* C3. Deletion correctness: delete is never called for a name of the PC listing
\* nor for a name that get_info did not return, and when a cycle has run to its
\* end it was called exactly once for each name get_info returned that the PC
\* listing does not hold.
C3_DeletionCorrect ==
    /\ \A n \in Names :
          Deletes(calls, n) > 0 => n \in DOMAIN snapshot \ listed
    /\ Completed =>
          \A n \in Names :
              Deletes(calls, n) = IF n \in DOMAIN snapshot \ listed THEN 1 ELSE 0

\* A completed cycle that visited a file of the PC and deleted a name that only
\* the cloud held.
C3_Witness ==
    /\ Completed /\ listed # {}
    /\ \E n \in DOMAIN snapshot \ listed : Deletes(calls, n) = 1

\* C4. Tie-break: a file whose modification time in get_info's answer equals the
\* one read on the PC (whatever the time is, 0 included), or is greater, is
\* neither loaded nor reloaded.
C4_TieBreak ==
    \A n \in DOMAIN seen \cap DOMAIN snapshot :
        snapshot[n] >= seen[n] => Uploads(calls, n) = 0

\* C5. Idempotence: in a cycle that follows a cycle ended without an exception,
\* the PC folder not changed in between, nothing is loaded, reloaded or deleted
\* and the three counters stay 0.
C5_Idempotence ==
    (quiet /\ pc \in {"for_local", "for_cloud"}) =>
        /\ \A n \in Names : Uploads(calls, n) = 0 /\ Deletes(calls, n) = 0
        /\ counters = <<0, 0, 0>>

\* C6. load (overwrite=False) is called only for names get_info did not return,
\* reload (overwrite=True) only for names it returned.
C6_OverwriteFlag ==
    \A n \in Names :
        /\ calls[<<"load", n>>] > 0 => n \notin DOMAIN snapshot
        /\ calls[<<"reload", n>>] > 0 => n \in DOMAIN snapshot

\* C7. The counters logged at the end of a cycle: loaded, the names of the PC
\* listing that get_info did not return; rewritten, the names it returned with a
\* time less than the one on the PC; deleted, the names it returned that the PC
\* listing does not hold.
C7_Counts ==
    Completed =>
        /\ download_files = Cardinality(listed \ DOMAIN snapshot)
        /\ rewrite_files =
              Cardinality({n \in listed \cap DOMAIN snapshot : snapshot[n] < seen[n]})
        /\ deleted_files = Cardinality(DOMAIN snapshot \ listed)

\* The exceptions of the taxonomy.
Exceptions == {"ConnectionError", "TokenException", "CloudException"}

\* Nothing but get_info, once, was called in the cycle.
OnlyListed(log) ==
    /\ log[<<"get_info", 0>>] = 1
    /\ \A n \in Names : Uploads(log, n) = 0 /\ Deletes(log, n) = 0

\* C8. When get_info meets status 401, TokenException is raised, the cycle calls
\* neither load nor reload nor delete, the cloud folder is as it was, and the
\* process is not ended: main goes on to its sleep (line 135), from where the
\* loop starts the next cycle.
C8_AuthFailure ==
    [][(pc = "get_info" /\ outcome' = "TokenException") =>
          (pc' = "sleep" /\ cloud' = cloud /\ OnlyListed(calls'))]_vars

\* get_info met 401 while the PC folder held a file to send and the cloud folder
\* one to delete.
C8_Witness ==
    /\ pc = "sleep" /\ outcome = "TokenException"
    /\ DOMAIN local \ DOMAIN cloud # {}
    /\ DOMAIN cloud \ DOMAIN local # {}

\* C9. An exception of the taxonomy, wherever in the cycle it is raised, does not
\* end the process: after every failed cycle main sleeps and starts another one.
C9_KeepsRunning ==
    /\ [](pc # "terminated")
    /\ (pc = "sleep" /\ outcome \in Exceptions) ~> (pc = "get_info")

\* delete raised CloudException in a cycle that had already stored a file.
C9_Witness ==
    /\ pc = "sleep" /\ outcome = "CloudException"
    /\ \E n \in Names : Uploads(calls, n) > 0 /\ n \in DOMAIN cloud
    /\ \E n \in Names : Deletes(calls, n) > 0

\* The cloud folder holds the names of the PC folder and no other, none older
\* than on the PC.
Synced ==
    /\ DOMAIN cloud = DOMAIN local
    /\ \A n \in DOMAIN local : cloud[n] >= local[n]

\* C10. Self-healing: once every request succeeds and the PC folder is left
\* alone, eventually the cloud folder holds exactly the names of the PC folder,
\* none older than on the PC, for good, and no cycle loads, reloads or deletes
\* any more.
C10_SelfHealing ==
    <>[](/\ Synced
         /\ \A n \in Names : Uploads(calls, n) = 0 /\ Deletes(calls, n) = 0)

\* C11. check_exists_folder_cloud: status 404 leads to the request that creates
\* the folder; every other answer that is neither 200 nor 404 raises
\* CloudException; and so does an answer other than 201 to the creating request,
\* while 201 leaves the folder on the disk.
C11_EnsureFolder ==
    /\ (response.request = "check_exists_folder_cloud" /\ response.status = 404) =>
          pc = "create_folder_cloud"
    /\ (response.request = "check_exists_folder_cloud"
          /\ response.status \notin {0, 200, 404}) =>
          (pc = "terminated" /\ outcome = "CloudException")
    /\ (response.request = "__create_folder_cloud" /\ response.status # 0) =>
          IF response.status = 201 THEN folder_exists /\ outcome = "none"
          ELSE pc = "terminated" /\ outcome = "CloudException"

\* C12. When __save's request for the upload address is answered with another
\* status than 200, CloudException is raised, its message holds the file name and
\* the message of the answer, nothing is put and the cloud folder is as it was.
C12_UploadRefused ==
    [][(pc = "for_local" /\ response'.request = "__save.get"
          /\ response'.status \notin {0, 200}) =>
          /\ outcome' = "CloudException"
          /\ Len(message') = 4
          /\ message'[2] = response'.name /\ message'[4] = response'.text
          /\ cloud' = cloud]_vars

\* The upload address was refused to a load or reload.
C12_Witness ==
    /\ pc = "sleep" /\ outcome = "CloudException"
    /\ response.request = "__save.get" /\ response.status \in Refusals
    /\ Uploads(calls, response.name) = 1

\* C13. get_info raises TokenException exactly when the answer's status is 401,
\* raises CloudException with the answer's message for every other status than
\* 200, and returns a dictionary only with status 200: the names of all the
\* resources of the cloud folder with their modification times.
C13_ListFolder ==
    /\ (response.request = "get_info" /\ response.status # 0) =>
          /\ (outcome = "TokenException") <=> (response.status = 401)
          /\ response.status \notin {200, 401} =>
                (outcome = "CloudException" /\ message = <<response.text>>)
          /\ response.status = 200 => (pc = "for_local" /\ snapshot = cloud)
    /\ (response.request = "get_info" /\ pc = "for_local") => response.status = 200

\* C14 as stated. A delete answered with 204 has destroyed the file (it is
\* neither in the cloud folder nor in the trash), and a delete answered with
\* another status raises CloudException.
C14_PermanentDelete ==
    response.request = "delete" =>
        IF response.status = 204
        THEN response.name \notin DOMAIN cloud /\ response.name \notin trashed
        ELSE response.status # 0 => outcome = "CloudException"

\* C14. A delete answered with 204 has taken the file out of the cloud folder
\* by the time it returns and moved it to the trash (permanently=False), and no
\* exception is raised; a delete answered with another status raises
\* CloudException and leaves the file where it was.
C14_DeleteToTrash ==
    response.request = "delete" =>
        IF response.status = 204
        THEN /\ response.name \notin DOMAIN cloud
             /\ response.name \in trashed
             /\ outcome \notin Exceptions
        ELSE response.status # 0 =>
                /\ outcome = "CloudException"
                /\ response.name \notin trashed

\* A delete was answered with 204 for a name get_info had returned.
C14_Witness ==
    /\ response.request = "delete" /\ response.status = 204
    /\ response.name \in DOMAIN snapshot

\* int(sleep_period) > 0, for a string of digits.
Positive(period) == IsDigit(period) /\ \E i \in 1..Len(period) : period[i] # "0"

\* C15. When the configured PATH_TO_FOLDER_ON_PC names no folder or the configured
\* SYNCHRONIZATION_PERIOD is not a positive integer, the process ends with
\* status 0, no request sent to the disk and no cycle started.
C15_ConfigExit ==
    (/\ path_on_pc # NoValue /\ sleep_period # NoValue
     /\ ~Exists(path_on_pc) \/ ~Positive(sleep_period)) =>
        /\ \/ pc \in {"main", "check_sleep_period"}
           \/ pc = "terminated" /\ exit_status = 0
        /\ response = NoResponse /\ calls = NoCalls

\* C16. In every cycle the first call is get_info, it is called once, and every
\* load and reload is called before any delete.
C16_ThreePhases ==
    [][(calls' # calls /\ calls' # NoCalls) =>
          IF calls = NoCalls THEN calls' = Called(NoCalls, <<"get_info", 0>>)
          ELSE /\ calls[<<"get_info", 0>>] = 1 /\ calls'[<<"get_info", 0>>] = 1
               /\ (\E n \in Names : Uploads(calls', n) > Uploads(calls, n)) =>
                     \A m \in Names : Deletes(calls, m) = 0]_vars

\* A cycle that ran to its end called load or reload, and delete.
C16_Witness ==
    /\ Completed
    /\ \E n \in Names : Uploads(calls, n) > 0
    /\ \E n \in Names : Deletes(calls, n) > 0

\* C17. When load, reload or delete raises CloudException, the cycle is over:
\* main goes to its sleep, no method of YandexCloud is called until the next
\* cycle, and the cloud folder stays as the calls before the exception left it.
C17_StopsAtError ==
    [][/\ (pc \in {"for_local", "for_cloud"} /\ outcome' = "CloudException") =>
             (pc' = "sleep" /\ cloud' = cloud /\ trashed' = trashed)
       /\ outcome \in Exceptions =>
             (cloud' = cloud /\ (calls' = calls \/ calls' = NoCalls))]_vars

\* load or reload raised CloudException, and a name get_info returned that the PC
\* folder does not hold is still in the cloud folder.
C17_Witness ==
    /\ pc = "sleep" /\ outcome = "CloudException"
    /\ response.request = "__save.get"
    /\ \E n \in DOMAIN snapshot \ listed : n \in DOMAIN cloud /\ Deletes(calls, n) = 0

\* C18. No step of the process, in a cycle that succeeds or in one that fails,
\* changes the PC folder.  (Every step of the process moves pc or todo.)
C18_LocalUntouched ==
    [][(pc' # pc \/ todo' # todo) => local' = local]_vars

\* A cycle stored a file with a later time than the file has on the PC.
C18_Witness ==
    /\ pc = "sleep"
    /\ \E n \in DOMAIN local \cap DOMAIN cloud :
          Uploads(calls, n) > 0 /\ cloud[n] > local[n]

====
